---- MODULE Spec2Model ----
(***************************************************************************)
(* Model of fts-result (src/src/Result.ts): the Result<E, V> tagged union, *)
(* its two classes _Err and _Ok, the factory functions Ok and Err, the     *)
(* eliminators unbox / fromOk / fromErr and the adapters fromNullable and  *)
(* fromException.                                                          *)
(*                                                                         *)
(* A JavaScript expression is modelled as a call chain: one constructor    *)
(* call, then combinator calls on the Result the previous call returned,   *)
(* optionally ended by an eliminator.  An exception that a call raises     *)
(* ends the chain.                                                         *)
(***************************************************************************)
EXTENDS Integers, Sequences, FiniteSets, TLC

\* Longest chain of method / eliminator calls after the constructor call.
MaxSteps == 3

VARIABLES
    pc,      \* "start", "chain", "returned" or "raised"
    ctor,    \* the constructor call that started the chain
    heap,    \* the Result instances allocated so far, oldest first
    trace,   \* the calls made on the Results after construction
    calls,   \* every callback invocation so far: [fn, args]
    out,     \* outcome of the latest call: [status, val, calls]
    nextId   \* identity of the next Error object that `new Error` makes

vars == <<pc, ctor, heap, trace, calls, out, nextId>>

----------------------------------------------------------------------------
(* JavaScript values.  A number is the rational n/d in lowest terms; NaN   *)
(* is 0/0.  An Error object has an identity (id) and a message (s).        *)

JsValue(type, n, d, s, id) == [type |-> type, n |-> n, d |-> d, s |-> s, id |-> id]

RECURSIVE GCD(_, _)
GCD(a, b) == IF b = 0 THEN a ELSE GCD(b, a % b)

NaN == JsValue("number", 0, 0, "", 0)
Num(n, d) ==
    IF d = 0 THEN NaN
    ELSE LET g == GCD(n, d) IN JsValue("number", n \div g, d \div g, "", 0)
Str(s) == JsValue("string", 0, 1, s, 0)
Bool(b) == JsValue("boolean", IF b THEN 1 ELSE 0, 1, "", 0)
Null == JsValue("null", 0, 1, "", 0)
Undefined == JsValue("undefined", 0, 1, "", 0)
ErrorObj(id, message) == JsValue("Error", 0, 1, message, id)

IsNumber(v) == v.type = "number"

\* ToBoolean: false, 0, NaN, "", null and undefined are falsy.
Truthy(v) ==
    CASE v.type = "number" -> v.n # 0
      [] v.type = "string" -> v.s # ""
      [] v.type = "boolean" -> v.n = 1
      [] v.type = "null" -> FALSE
      [] v.type = "undefined" -> FALSE
      [] OTHER -> TRUE

\* typeof v
TypeOf(v) ==
    CASE v.type = "null" -> "object"
      [] v.type = "Error" -> "object"
      [] OTHER -> v.type

DiagMessage == "fromErr was called with an Ok Result"

\* Error objects that exist before the chain starts.
SomeError == ErrorObj(1, "Some Error")
NewError == ErrorObj(2, "New Error Message")
LookalikeError == ErrorObj(3, DiagMessage)

----------------------------------------------------------------------------
(* The factory functions and the outcome of a call.                        *)

Err(err) == [kind |-> "Err", err |-> err]

Ok(value) == [kind |-> "Ok", value |-> value]

\* A call either returns a value or raises one; calls lists the callback
\* invocations it made.
Return(x, cs) == [status |-> "return", val |-> x, calls |-> cs]
Raise(x, cs) == [status |-> "throw", val |-> x, calls |-> cs]

----------------------------------------------------------------------------
(* Callbacks.  A callback is named by the lambda it stands for; length is  *)
(* its declared arity (Function.length), k the value a constant lambda     *)
(* captures, f and g the lambdas a composed lambda is made of.             *)

Fn(name, length) == [name |-> name, length |-> length, k |-> Undefined, f |-> "", g |-> ""]
Returns(length, x) == [name |-> "returns", length |-> length, k |-> x, f |-> "", g |-> ""]
Throws(length, x) == [name |-> "throws", length |-> length, k |-> x, f |-> "", g |-> ""]
Composed(name, f, g) == [name |-> name, length |-> 1, k |-> Undefined, f |-> f, g |-> g]

Invocation(fn, args) == [fn |-> fn, args |-> args]

\* The lambdas whose parameter is declared a number.
NumericNames == {"add2", "div11", "okDouble"}

\* Whether the type checker lets fn be called with v as its first argument.
Accepts(fn, v) ==
    /\ fn.name \in NumericNames => IsNumber(v)
    /\ fn.f \in NumericNames => IsNumber(v)

RECURSIVE Invoke(_, _)

----------------------------------------------------------------------------
(* class _Err                                                              *)

\* Slip: the Failure maps its payload as a Success maps its value.
Err_fmap_applies(this, fmapFunction) ==
    LET c == Invoke(fmapFunction, <<this.err>>)
    IN  IF c.status = "throw" THEN c ELSE Return(Err(c.val), c.calls)

Err_fmap(this, fmapFunction) == Return(Err(this.err), <<>>)

Err_bind(this, bindFun) == Return(Err(this.err), <<>>)

Err_seq(this, sequenceFunction) == Return(Err(this.err), <<>>)

Err_then(this, bindOrSequenceFunction) == Return(Err(this.err), <<>>)

\* Slip: the body of fmap copied into mapErr.
Err_mapErr_keeps(this, errMapFun) == Return(Err(this.err), <<>>)

Err_mapErr(this, errMapFun) ==
    LET c == Invoke(errMapFun, <<this.err>>)
    IN  IF c.status = "throw" THEN c ELSE Return(Err(c.val), c.calls)

----------------------------------------------------------------------------
(* class _Ok                                                               *)

\* defaultThen of fts-monad: a no-argument function is run as a sequence
\* function, any other is given the value.
defaultThen(value, bindOrSequenceFunction) ==
    IF bindOrSequenceFunction.length = 0
    THEN Invoke(bindOrSequenceFunction, <<>>)
    ELSE Invoke(bindOrSequenceFunction, <<value>>)

\* Slip: the mapped value is dropped and the old one rewrapped.
Ok_fmap_keeps(this, fmapFunction) ==
    LET c == Invoke(fmapFunction, <<this.value>>)
    IN  IF c.status = "throw" THEN c ELSE Return(Ok(this.value), c.calls)

Ok_fmap(this, fmapFunction) ==
    LET c == Invoke(fmapFunction, <<this.value>>)
    IN  IF c.status = "throw" THEN c ELSE Return(Ok(c.val), c.calls)

\* Slip: the callback's Result is wrapped again, as fmap wraps a value.
Ok_bind_rewraps(this, bindFun) ==
    LET c == Invoke(bindFun, <<this.value>>)
    IN  IF c.status = "throw" THEN c ELSE Return(Ok(c.val), c.calls)

Ok_bind(this, bindFun) == Invoke(bindFun, <<this.value>>)

\* Slip: an exception of the sequence function is caught and boxed.
Ok_seq_catches(this, sequenceFunction) ==
    LET c == Invoke(sequenceFunction, <<>>)
    IN  IF c.status = "throw" THEN Return(Err(c.val), c.calls) ELSE c

Ok_seq(this, sequenceFunction) == Invoke(sequenceFunction, <<>>)

Ok_then(this, bindOrSequenceFunction) ==
    defaultThen(this.value, bindOrSequenceFunction)

Ok_mapErr(this, errMapFun) == Return(Ok(this.value), <<>>)

----------------------------------------------------------------------------
(* Method calls on a Result: dispatch on the receiver's class.             *)

fmap(r, f) == IF r.kind = "Err" THEN Err_fmap(r, f) ELSE Ok_fmap(r, f)
bind(r, f) == IF r.kind = "Err" THEN Err_bind(r, f) ELSE Ok_bind(r, f)
seq(r, f) == IF r.kind = "Err" THEN Err_seq(r, f) ELSE Ok_seq(r, f)
then(r, f) == IF r.kind = "Err" THEN Err_then(r, f) ELSE Ok_then(r, f)
mapErr(r, f) == IF r.kind = "Err" THEN Err_mapErr(r, f) ELSE Ok_mapErr(r, f)

\* a.m(f) where a is itself the outcome of a call: an exception raised by
\* the first call leaves the second unevaluated.
Chain(a, b) ==
    IF a.status = "throw" THEN a ELSE [b EXCEPT !.calls = a.calls \o b.calls]

----------------------------------------------------------------------------
(* What a callback does when it is invoked with args.                      *)

Arg(args) == IF Len(args) >= 1 THEN args[1] ELSE Undefined

Body(fn, args) ==
    LET a == Arg(args) IN
    CASE fn.name = "identity" -> Return(a, <<>>)                \* (x) => x
      [] fn.name = "add2" -> Return(Num(a.n + 2 * a.d, a.d), <<>>)   \* (v) => v + 2
      [] fn.name = "div11" -> Return(Num(a.n, 11 * a.d), <<>>)  \* (v) => v/11
      [] fn.name = "typeof" -> Return(Str(TypeOf(a)), <<>>)     \* (e) => typeof e
      [] fn.name = "constNull" -> Return(Null, <<>>)            \* (err) => null
      [] fn.name = "newError" -> Return(NewError, <<>>)         \* (e) => newError
      [] fn.name = "returns" -> Return(fn.k, <<>>)              \* () => k
      [] fn.name = "throws" -> Raise(fn.k, <<>>)                \* () => { throw k; }
      [] fn.name = "okDouble" -> Return(Ok(Num(2 * a.n, a.d)), <<>>)  \* (value) => Ok(value*2)
      [] fn.name = "okUnit" -> Return(Ok(a), <<>>)              \* (v) => Ok(v)
      [] fn.name = "errBad" -> Return(Err(Str("bad")), <<>>)    \* (v) => Err("bad")
      [] fn.name = "errOf" -> Return(Err(a), <<>>)              \* (v) => Err(v)
      [] fn.name = "seqOk5" -> Return(Ok(Num(5, 1)), <<>>)      \* () => Ok(5)
      [] fn.name = "seqErr" -> Return(Err(Str("Something is wrong")), <<>>)
      [] fn.name = "throwArg" -> Raise(a, <<>>)                 \* (err) => {throw err;}
      [] fn.name = "throwDiag" -> Raise(ErrorObj(nextId, DiagMessage), <<>>)
      \* (v) => g(f(v))
      [] fn.name = "fmapCompose" ->
            LET x == Invoke(Fn(fn.f, 1), <<a>>)
            IN  IF x.status = "throw" THEN x
                ELSE Chain(x, Invoke(Fn(fn.g, 1), <<x.val>>))
      \* (v) => f(v).bind(g)
      [] fn.name = "bindCompose" ->
            LET x == Invoke(Fn(fn.f, 1), <<a>>)
            IN  IF x.status = "throw" THEN x
                ELSE Chain(x, bind(x.val, Fn(fn.g, 1)))

\* Calling fn(args): the invocation is logged, then the body runs.
Invoke(fn, args) ==
    LET b == Body(fn, args)
    IN  [b EXCEPT !.calls = <<Invocation(fn, args)>> \o b.calls]

----------------------------------------------------------------------------
(* The exported functions.                                                 *)

\* Slip: the "Ok" case of the switch falls through into the "Err" case.
unbox_fallthrough(result, okCallback, errCallback) ==
    CASE result.kind = "Ok" ->
            Chain(Invoke(okCallback, <<result.value>>),
                  Invoke(errCallback, <<Undefined>>))
      [] result.kind = "Err" -> Invoke(errCallback, <<result.err>>)

unbox(result, okCallback, errCallback) ==
    CASE result.kind = "Ok" -> Invoke(okCallback, <<result.value>>)
      [] result.kind = "Err" -> Invoke(errCallback, <<result.err>>)

isOk(result) == Return(Bool(result.kind = "Ok"), <<>>)

\* Slip: the negation is left out.
isErr_same(result) == isOk(result)

isErr(result) == Return(Bool(~(isOk(result).val = Bool(TRUE))), <<>>)

fromNullable(nullable, errorIfNull) ==
    IF Truthy(nullable)
    THEN Return(Ok(nullable), <<>>)
    ELSE Return(Err(errorIfNull), <<>>)

\* Slip: no try/catch around the call.
fromException_rethrows(exceptionRaisingFunction) ==
    LET c == Invoke(exceptionRaisingFunction, <<>>)
    IN  IF c.status = "throw" THEN c ELSE Return(Ok(c.val), c.calls)

fromException(exceptionRaisingFunction) ==
    LET c == Invoke(exceptionRaisingFunction, <<>>)
    IN  IF c.status = "throw"
        THEN Return(Err(c.val), c.calls)
        ELSE Return(Ok(c.val), c.calls)

\* Slip: the payload is replaced by a new Error.
fromOk_wraps(result) == unbox(result, Fn("identity", 1), Fn("throwDiag", 1))

fromOk(result) == unbox(result, Fn("identity", 1), Fn("throwArg", 1))

\* Slip: the Success value is thrown, as fromOk throws the error.
fromErr_throwsValue(result) == unbox(result, Fn("throwArg", 1), Fn("identity", 1))

fromErr(result) == unbox(result, Fn("throwDiag", 1), Fn("identity", 1))

----------------------------------------------------------------------------
(* Inputs of the calls.                                                    *)

Boom == Str("boom")

OkInputs == {Num(5, 1), Num(0, 1), LookalikeError}
ErrInputs == {Str("bad"), SomeError, Undefined}
Nullables == {Null, Undefined, Num(0, 1), NaN, Str(""), Bool(FALSE),
              Num(12, 1), Str("x")}
NullErrors == {SomeError}
ThunkValues == {Num(5, 1), Undefined, SomeError}
Thunks == {Returns(0, x) : x \in ThunkValues} \cup {Throws(0, x) : x \in ThunkValues}

FmapFuns == {Fn("add2", 1), Fn("div11", 1), Throws(1, Boom)}
ErrMapFuns == {Fn("typeof", 1), Fn("newError", 1), Throws(1, Boom)}
BindFuns == {Fn("okDouble", 1), Fn("errBad", 1), Throws(1, Boom)}
SeqFuns == {Fn("seqOk5", 0), Throws(0, Boom)}
ThenFuns == {Fn("errBad", 1), Fn("seqOk5", 0)}
OkCallbacks == {Fn("identity", 1), Throws(1, Boom)}
ErrCallbacks == {Fn("constNull", 1), Fn("typeof", 1)}

NoFn == Fn("", 0)

----------------------------------------------------------------------------
(* The call chain.                                                         *)

Init ==
    /\ pc = "start"
    /\ ctor = [op |-> "none"]
    /\ heap = <<>>
    /\ trace = <<>>
    /\ calls = <<>>
    /\ out = [status |-> "none", val |-> Undefined, calls |-> <<>>]
    /\ nextId = 4

\* The Result the next call is made on: the one the previous call returned.
Cur == heap[Len(heap)]

\* `new Error` runs once in each invocation of fromErr's okCallback.
Allocated(cs) == Cardinality({i \in DOMAIN cs : cs[i].fn.name = "throwDiag"})

\* A constructor call c with outcome o starts the chain; an exception that
\* escapes it leaves no Result.
Construct(c, o) ==
    /\ ctor' = c
    /\ heap' = IF o.status = "return" THEN <<o.val>> ELSE <<>>
    /\ calls' = o.calls
    /\ out' = o
    /\ pc' = IF o.status = "return" THEN "chain" ELSE "raised"
    /\ UNCHANGED <<trace, nextId>>

\* Slip: the method stores its result in the receiver and returns this.
Step_inplace(op, fn, o) ==
    /\ trace' = Append(trace, [op |-> op, fn |-> fn, fn2 |-> NoFn])
    /\ calls' = calls \o o.calls
    /\ out' = o
    /\ heap' = IF o.status = "return"
               THEN [heap EXCEPT ![Len(heap)] = o.val]
               ELSE heap
    /\ pc' = IF o.status = "return" THEN "chain" ELSE "raised"
    /\ nextId' = nextId + Allocated(o.calls)
    /\ UNCHANGED ctor

\* A method call with outcome o: the Result it returns is a new instance
\* and the receiver of the next call; an exception ends the chain.
Step(op, fn, o) ==
    /\ trace' = Append(trace, [op |-> op, fn |-> fn, fn2 |-> NoFn])
    /\ calls' = calls \o o.calls
    /\ out' = o
    /\ heap' = IF o.status = "return" THEN Append(heap, o.val) ELSE heap
    /\ pc' = IF o.status = "return" THEN "chain" ELSE "raised"
    /\ nextId' = nextId + Allocated(o.calls)
    /\ UNCHANGED ctor

\* An eliminator call with outcome o ends the chain.
Eliminate(op, fn, fn2, o) ==
    /\ trace' = Append(trace, [op |-> op, fn |-> fn, fn2 |-> fn2])
    /\ calls' = calls \o o.calls
    /\ out' = o
    /\ pc' = IF o.status = "return" THEN "returned" ELSE "raised"
    /\ nextId' = nextId + Allocated(o.calls)
    /\ UNCHANGED <<ctor, heap>>

\* A tag test with outcome o: the Result stays at hand for the next call.
Inspect(op, o) ==
    /\ trace' = Append(trace, [op |-> op, fn |-> NoFn, fn2 |-> NoFn])
    /\ out' = o
    /\ UNCHANGED <<pc, ctor, heap, calls, nextId>>

CanCall == pc = "chain" /\ Len(trace) < MaxSteps

\* The callback type-checks against the receiver's value type.
Typed(r, fn) == r.kind = "Ok" => Accepts(fn, r.value)

CallOk ==
    /\ pc = "start"
    /\ \E v \in OkInputs :
            Construct([op |-> "Ok", value |-> v], Return(Ok(v), <<>>))

CallErr ==
    /\ pc = "start"
    /\ \E e \in ErrInputs :
            Construct([op |-> "Err", err |-> e], Return(Err(e), <<>>))

CallFromNullable ==
    /\ pc = "start"
    /\ \E n \in Nullables, e \in NullErrors :
            Construct([op |-> "fromNullable", nullable |-> n, errorIfNull |-> e],
                      fromNullable(n, e))

CallFromException ==
    /\ pc = "start"
    /\ \E f \in Thunks :
            Construct([op |-> "fromException", exceptionRaisingFunction |-> f],
                      fromException(f))

CallFmap ==
    /\ CanCall
    /\ \E f \in FmapFuns : Typed(Cur, f) /\ Step("fmap", f, fmap(Cur, f))

CallMapErr ==
    /\ CanCall
    /\ \E f \in ErrMapFuns : Step("mapErr", f, mapErr(Cur, f))

CallBind ==
    /\ CanCall
    /\ \E f \in BindFuns : Typed(Cur, f) /\ Step("bind", f, bind(Cur, f))

CallSeq ==
    /\ CanCall
    /\ \E f \in SeqFuns : Step("seq", f, seq(Cur, f))

CallThen ==
    /\ CanCall
    /\ \E f \in ThenFuns : Typed(Cur, f) /\ Step("then", f, then(Cur, f))

CallUnbox ==
    /\ CanCall
    /\ \E f \in OkCallbacks, g \in ErrCallbacks :
          Eliminate("unbox", f, g, unbox(Cur, f, g))

CallFromOk ==
    /\ CanCall
    /\ Eliminate("fromOk", NoFn, NoFn, fromOk(Cur))

CallFromErr ==
    /\ CanCall
    /\ Eliminate("fromErr", NoFn, NoFn, fromErr(Cur))

CallIsOk ==
    /\ CanCall
    /\ Inspect("isOk", isOk(Cur))

CallIsErr ==
    /\ CanCall
    /\ Inspect("isErr", isErr(Cur))

Next ==
    \/ CallOk
    \/ CallErr
    \/ CallFromNullable
    \/ CallFromException
    \/ CallFmap
    \/ CallMapErr
    \/ CallBind
    \/ CallSeq
    \/ CallThen
    \/ CallUnbox
    \/ CallFromOk
    \/ CallFromErr
    \/ CallIsOk
    \/ CallIsErr

Spec == Init /\ [][Next]_vars

----------------------------------------------------------------------------
(* Vocabulary of the properties.                                           *)

ChainOps == {"fmap", "bind", "seq", "then"}
Combinators == ChainOps \cup {"mapErr"}

Started == Len(heap) >= 1
Last == trace[Len(trace)]
LastIs(op) == Len(trace) >= 1 /\ Last.op = op

\* The Result the latest call was made on.
Receiver ==
    IF Last.op \in Combinators /\ out.status = "return"
    THEN heap[Len(heap) - 1]
    ELSE Cur

IsResult(x) == "kind" \in DOMAIN x /\ x.kind \in {"Ok", "Err"}
Payload(r) == IF r.kind = "Ok" THEN r.value ELSE r.err

\* Same outcome: both return the same value or both raise the same value.
Same(a, b) == a.status = b.status /\ a.val = b.val

\* How often callback fn was invoked in the log cs.
Count(cs, fn) == Cardinality({i \in DOMAIN cs : cs[i].fn = fn})

----------------------------------------------------------------------------
\* C1: Failure is absorbing under fmap, bind, seq and then.  When the chain
\* started from a Failure and every call so far was one of these four, no
\* call raised, every Result of the chain is a Failure carrying the payload
\* of the first, and none of the callbacks handed to the calls was invoked.
\* In Ok(5).fmap(v => v + 2).bind(v => Err("bad")).fmap(v => v/11) the
\* result is the Failure "bad" and the last callback ran 0 times.
ExampleChain ==
    /\ ctor = [op |-> "Ok", value |-> Num(5, 1)]
    /\ Len(trace) = 3
    /\ trace[1].op = "fmap" /\ trace[1].fn = Fn("add2", 1)
    /\ trace[2].op = "bind" /\ trace[2].fn = Fn("errBad", 1)
    /\ trace[3].op = "fmap" /\ trace[3].fn = Fn("div11", 1)

FailureAbsorbing ==
    /\ ( /\ Started
         /\ heap[1].kind = "Err"
         /\ \A i \in DOMAIN trace : trace[i].op \in ChainOps )
       => /\ pc = "chain"
          /\ Len(heap) = Len(trace) + 1
          /\ \A i \in DOMAIN heap : heap[i] = Err(heap[1].err)
          /\ \A i \in DOMAIN trace : Count(calls, trace[i].fn) = 0
    /\ ExampleChain
       => /\ pc = "chain"
          /\ Cur = Err(Str("bad"))
          /\ Count(calls, Fn("div11", 1)) = 0
          /\ Len(calls) = 2

\* A chain of three different calls on Err(e).
FailureAbsorbingWitness ==
    /\ ctor.op = "Err"
    /\ Len(trace) = 3
    /\ trace[1].op = "fmap" /\ trace[2].op = "bind" /\ trace[3].op = "then"
    /\ Cur.kind = "Err"

----------------------------------------------------------------------------
\* C2: unbox invokes exactly one of its two callbacks, exactly once, chosen
\* by the tag: on Ok(v) it invokes okCallback with v and its outcome is
\* okCallback's; on Err(e) it invokes errCallback with e and its outcome is
\* errCallback's; the other callback is not invoked.
UnboxSelectsByTag ==
    LastIs("unbox") =>
        /\ Cur.kind = "Ok" =>
              /\ out.calls = <<Invocation(Last.fn, <<Cur.value>>)>>
              /\ Same(out, Body(Last.fn, <<Cur.value>>))
              /\ Count(out.calls, Last.fn2) = 0
        /\ Cur.kind = "Err" =>
              /\ out.calls = <<Invocation(Last.fn2, <<Cur.err>>)>>
              /\ Same(out, Body(Last.fn2, <<Cur.err>>))
              /\ Count(out.calls, Last.fn) = 0

\* unbox has returned okCallback's value for a Success.
UnboxSelectsByTagWitness ==
    /\ LastIs("unbox")
    /\ Cur.kind = "Ok"
    /\ pc = "returned"
    /\ Last.fn = Fn("identity", 1)

----------------------------------------------------------------------------
\* C3: bind satisfies the monad laws.  Left identity: Ok(v).bind(f) has the
\* outcome of f(v), the callback's Result returned as it is.  Associativity:
\* m.bind(f).bind(g) and m.bind(v => f(v).bind(g)) have the same tag and
\* payload, for every Result m of a chain and Result-returning f and g.
LawBindFuns == {Fn("okDouble", 1), Fn("okUnit", 1), Fn("errBad", 1), Fn("errOf", 1)}

BindThenBind(m, f, g) ==
    LET a == bind(m, f)
    IN  IF a.status = "throw" THEN a ELSE Chain(a, bind(a.val, g))

BindTyped(m, f, g) ==
    /\ Typed(m, f)
    /\ LET a == bind(m, f) IN a.status = "return" => Typed(a.val, g)

MonadLaws ==
    /\ pc = "chain" =>
          \A f \in LawBindFuns :
              Typed(Cur, f) =>
                  /\ Cur.kind = "Ok" => Same(bind(Cur, f), Body(f, <<Cur.value>>))
                  /\ \A g \in LawBindFuns :
                        BindTyped(Cur, f, g) =>
                            Same(BindThenBind(Cur, f, g),
                                 bind(Cur, Composed("bindCompose", f.name, g.name)))
    /\ (LastIs("bind") /\ Receiver.kind = "Ok") =>
          Same(out, Body(Last.fn, <<Receiver.value>>))

\* Ok(v).bind(f) has returned the Failure that f returned.
MonadLawsWitness ==
    /\ LastIs("bind")
    /\ Receiver.kind = "Ok"
    /\ pc = "chain"
    /\ Cur = Err(Str("bad"))

----------------------------------------------------------------------------
\* C4: fmap satisfies the functor laws on every Result r of a chain.
\* Identity: r.fmap(x => x) has r's tag and payload.  Composition:
\* r.fmap(f).fmap(g) and r.fmap(v => g(f(v))) have the same tag and payload
\* for pure f and g.  On Ok(v), fmap(f) is Ok(f(v)).
LawFmapFuns == {Fn("identity", 1), Fn("add2", 1), Fn("div11", 1),
                Fn("typeof", 1), Fn("constNull", 1)}

FmapThenFmap(r, f, g) ==
    LET a == fmap(r, f)
    IN  IF a.status = "throw" THEN a ELSE Chain(a, fmap(a.val, g))

FmapTyped(r, f, g) ==
    /\ Typed(r, f)
    /\ LET a == fmap(r, f) IN a.status = "return" => Typed(a.val, g)

FunctorLaws ==
    /\ pc = "chain" =>
          /\ Same(fmap(Cur, Fn("identity", 1)), Return(Cur, <<>>))
          /\ \A f \in LawFmapFuns :
                Typed(Cur, f) =>
                    /\ Cur.kind = "Ok" =>
                          Same(fmap(Cur, f), Return(Ok(Body(f, <<Cur.value>>).val), <<>>))
                    /\ \A g \in LawFmapFuns :
                          FmapTyped(Cur, f, g) =>
                              Same(FmapThenFmap(Cur, f, g),
                                   fmap(Cur, Composed("fmapCompose", f.name, g.name)))
    /\ (LastIs("fmap") /\ Receiver.kind = "Ok" /\ out.status = "return") =>
          Cur = Ok(Body(Last.fn, <<Receiver.value>>).val)

\* Ok(5).fmap(v => v + 2) has returned Ok(7).
FunctorLawsWitness ==
    /\ LastIs("fmap")
    /\ Receiver = Ok(Num(5, 1))
    /\ Last.fn = Fn("add2", 1)
    /\ Cur = Ok(Num(7, 1))

----------------------------------------------------------------------------
\* C5 as stated: every combinator call (fmap, mapErr, bind, seq, then), on
\* any Result and with any callback, returns a Result and never raises.
CombinatorsTotal ==
    (Len(trace) >= 1 /\ Last.op \in Combinators) =>
        /\ out.status = "return"
        /\ IsResult(out.val)

\* C5 as amended: a combinator call raises nothing of its own.  It invokes
\* at most its own callback, once; without an invocation it returns a
\* Result; with one it returns a Result when the callback returned and
\* raises exactly what the callback raised when the callback raised.
CombinatorsRaiseOnlyCallback ==
    (Len(trace) >= 1 /\ Last.op \in Combinators) =>
        /\ Len(out.calls) <= 1
        /\ out.calls = <<>> => (out.status = "return" /\ IsResult(out.val))
        /\ Len(out.calls) = 1 =>
              LET c == out.calls[1]
                  b == Body(c.fn, c.args)
              IN  /\ c.fn = Last.fn
                  /\ b.status = "throw" => Same(out, b)
                  /\ b.status = "return" =>
                        (out.status = "return" /\ IsResult(out.val))

\* Ok(v).fmap(f) has raised what f raised.
CombinatorsRaiseOnlyCallbackWitness ==
    /\ LastIs("fmap")
    /\ Cur.kind = "Ok"
    /\ pc = "raised"
    /\ out.val = Boom

----------------------------------------------------------------------------
\* C6 as stated: fromNullable(nullable, errorIfNull) is Err(errorIfNull)
\* when nullable is null or undefined and Ok(nullable) for every other
\* nullable.
FromNullableStrict ==
    ctor.op = "fromNullable" =>
        /\ Started
        /\ heap[1] = IF ctor.nullable.type \in {"null", "undefined"}
                     THEN Err(ctor.errorIfNull)
                     ELSE Ok(ctor.nullable)

----------------------------------------------------------------------------
\* C7: fromException(fn) invokes fn exactly once, with no arguments, and
\* lets no exception escape: it returns Ok(x) when fn returns x and Err(x)
\* when fn raises x, whatever kind of value x is.
FromExceptionCatches ==
    ctor.op = "fromException" =>
        LET fn == ctor.exceptionRaisingFunction
            b == Body(fn, <<>>)
        IN  /\ Started
            /\ trace = <<>> => (pc = "chain" /\ out.status = "return")
            /\ Len(calls) >= 1
            /\ calls[1] = Invocation(fn, <<>>)
            /\ Count(calls, fn) = 1
            /\ b.status = "return" => heap[1] = Ok(b.val)
            /\ b.status = "throw" => heap[1] = Err(b.val)

\* fromException(() => { throw undefined; }) has returned Err(undefined).
FromExceptionCatchesWitness ==
    /\ ctor.op = "fromException"
    /\ ctor.exceptionRaisingFunction = Throws(0, Undefined)
    /\ trace = <<>>
    /\ Started
    /\ heap[1] = Err(Undefined)

----------------------------------------------------------------------------
\* C8: fromOk(result) returns v for Ok(v) and raises the payload e itself
\* for Err(e).
FromOkUnwraps ==
    LastIs("fromOk") =>
        /\ Cur.kind = "Ok" => (out.status = "return" /\ out.val = Cur.value)
        /\ Cur.kind = "Err" => (out.status = "throw" /\ out.val = Cur.err)

\* fromOk has raised the Error a Failure carried.
FromOkUnwrapsWitness ==
    /\ LastIs("fromOk")
    /\ Cur = Err(SomeError)
    /\ pc = "raised"

----------------------------------------------------------------------------
\* C9: fromErr(result) returns e for Err(e); for Ok(v) it raises a new Error
\* object with the diagnostic message, which is not v and not any value
\* that existed before the call.
FromErrUnwraps ==
    LastIs("fromErr") =>
        /\ Cur.kind = "Err" => (out.status = "return" /\ out.val = Cur.err)
        /\ Cur.kind = "Ok" =>
              /\ out.status = "throw"
              /\ out.val.type = "Error"
              /\ out.val.s = DiagMessage
              /\ out.val # Cur.value
              /\ out.val \notin {SomeError, NewError, LookalikeError}
              /\ \A i \in DOMAIN heap : Payload(heap[i]) # out.val

\* fromErr was called on a Success whose value is an Error with the
\* diagnostic's own message.
FromErrUnwrapsWitness ==
    /\ LastIs("fromErr")
    /\ Cur = Ok(LookalikeError)
    /\ pc = "raised"

----------------------------------------------------------------------------
\* C10: mapErr transforms only the error channel.  Err(e).mapErr(g) invokes
\* g exactly once, with e, and is Err(g(e)); Ok(v).mapErr(g) is Ok(v) and g
\* is not invoked.
MapErrOnlyErrors ==
    LastIs("mapErr") =>
        /\ Receiver.kind = "Err" =>
              LET b == Body(Last.fn, <<Receiver.err>>)
              IN  /\ out.calls = <<Invocation(Last.fn, <<Receiver.err>>)>>
                  /\ b.status = "return" => Same(out, Return(Err(b.val), <<>>))
                  /\ b.status = "throw" => Same(out, b)
        /\ Receiver.kind = "Ok" =>
              /\ Same(out, Return(Ok(Receiver.value), <<>>))
              /\ out.calls = <<>>

\* Err(e).mapErr(e => typeof e) has returned Err("object").
MapErrOnlyErrorsWitness ==
    /\ LastIs("mapErr")
    /\ Receiver = Err(SomeError)
    /\ Last.fn = Fn("typeof", 1)
    /\ Cur = Err(Str("object"))

----------------------------------------------------------------------------
\* C11: isOk and isErr are complementary tag tests.  For every Result r of
\* a chain, whichever constructor or combinator produced it, isOk(r) is
\* true exactly when r's tag is "Ok", isErr(r) is true exactly when r's tag
\* is "Err", and isErr(r) is the negation of isOk(r).
TagTests ==
    /\ pc = "chain" =>
          /\ isOk(Cur) = Return(Bool(Cur.kind = "Ok"), <<>>)
          /\ isErr(Cur) = Return(Bool(Cur.kind = "Err"), <<>>)
          /\ (isErr(Cur).val = Bool(TRUE)) <=> (isOk(Cur).val = Bool(FALSE))
    /\ LastIs("isOk") =>
          (out.status = "return" /\ out.val = Bool(Cur.kind = "Ok"))
    /\ LastIs("isErr") =>
          (out.status = "return" /\ out.val = Bool(Cur.kind = "Err"))

\* isErr has returned true for the Failure that a bind on a Success made.
TagTestsWitness ==
    /\ Len(trace) = 2
    /\ ctor.op = "Ok"
    /\ trace[1].op = "bind"
    /\ trace[2].op = "isErr"
    /\ Cur.kind = "Err"
    /\ out.val = Bool(TRUE)

----------------------------------------------------------------------------
\* C12: a Result instance is immutable after construction.  No call (fmap,
\* mapErr, bind, seq, then, unbox, isOk, isErr, fromOk, fromErr) changes the
\* tag or the payload of any Result that exists when it is made, and the
\* first Result of a chain keeps the tag and payload its constructor gave
\* it.
AsConstructed ==
    (Started /\ ctor.op = "Ok" => heap[1] = Ok(ctor.value))
    /\ (Started /\ ctor.op = "Err" => heap[1] = Err(ctor.err))

ResultsImmutable ==
    /\ []AsConstructed
    /\ [][\A i \in DOMAIN heap : i \in DOMAIN heap' /\ heap'[i] = heap[i]]_vars

\* Ok(5) after isOk, isErr and fmap(v => v + 2) were called on it.
ResultsImmutableWitness ==
    /\ ctor = [op |-> "Ok", value |-> Num(5, 1)]
    /\ Len(trace) = 3
    /\ trace[1].op = "isOk"
    /\ trace[2].op = "isErr"
    /\ trace[3].op = "fmap" /\ trace[3].fn = Fn("add2", 1)
    /\ heap = <<Ok(Num(5, 1)), Ok(Num(7, 1))>>

====
